---- MODULE Spec2Model ----
(***************************************************************************)
(* Model of Practical_1/snake_game.py: the SnakeGame object, its key       *)
(* handlers and its timer-driven loop.  `game' is the SnakeGame instance   *)
(* (self); every method is an operator from an instance to the set of      *)
(* instances it can leave behind (a set because spawn_food draws the food  *)
(* cell with random.choice).                                               *)
(***************************************************************************)
EXTENDS Integers, Sequences, FiniteSets, TLC

VARIABLES
    game,       \* the SnakeGame instance (self)
    last,       \* history: the last event, its key, and a digest of the state it found
    ticks,      \* history: how many times step() ran in the current game (saturating)
    committed   \* history: the directions the last two step() calls of this game committed

vars == <<game, last, ticks, committed>>

\* Largest grid (rows * cols) the constructor is given.
MaxCells == 9
\* The tick counter of a game saturates here.
MaxTicks == 5

\* Default rows and cols of the constructor.
DefaultRows == 20
DefaultCols == 20

\* Constructor arguments: any grid on which the start snake fits (cols >= 3).
GridSizes ==
    {rc \in (1..MaxCells) \X (3..MaxCells) : rc[1] * rc[2] <= MaxCells}

None == <<>>

Directions == {"Up", "Down", "Left", "Right"}
Keys == Directions \cup {"space", "r", "R", "a"}

Range(s) == {s[i] : i \in 1..Len(s)}

Min(a, b) == IF a < b THEN a ELSE b

opposites == [k \in Directions |->
                CASE k = "Up" -> "Down"
                  [] k = "Down" -> "Up"
                  [] k = "Left" -> "Right"
                  [] k = "Right" -> "Left"]

delta == [k \in Directions |->
            CASE k = "Up" -> <<-1, 0>>
              [] k = "Down" -> <<1, 0>>
              [] k = "Left" -> <<0, -1>>
              [] k = "Right" -> <<0, 1>>]

\* The canvas holds what draw() put on it: the body segments, the head, the
\* food rectangle and the overlay texts, in drawing order.  score_var holds the
\* number n of the label text "Score: n".
\* canvas.delete("all")
EmptyCanvas == [segments |-> <<>>, head |-> None, food |-> None, overlay |-> <<>>]

draw_overlay(canvas, text) == [canvas EXCEPT !.overlay = Append(@, text)]

draw(self) ==
    LET n  == Len(self.snake)
        c1 == [EmptyCanvas EXCEPT !.segments = SubSeq(self.snake, 1, n - 1),
                                  !.head = self.snake[n]]
        c2 == IF self.food # None THEN [c1 EXCEPT !.food = self.food] ELSE c1
        c3 == IF self.paused THEN draw_overlay(c2, "Paused") ELSE c2
        c4 == IF ~self.game_running THEN draw_overlay(c3, "Game Over") ELSE c3
    IN  [self EXCEPT !.canvas = c4]

game_over(self) == draw([self EXCEPT !.game_running = FALSE])

hit_wall_off_by_one(self, position) ==
    \/ position[1] < 0
    \/ position[1] > self.rows
    \/ position[2] < 0
    \/ position[2] > self.cols

hit_wall(self, position) ==
    \/ position[1] < 0
    \/ position[1] >= self.rows
    \/ position[2] < 0
    \/ position[2] >= self.cols

available_whole_grid(self) ==
    {<<r, c>> : r \in 0..(self.rows - 1), c \in 0..(self.cols - 1)}

available(self) ==
    {<<r, c>> : r \in 0..(self.rows - 1), c \in 0..(self.cols - 1)} \ Range(self.snake)

spawn_food_keeps_food(self) ==
    IF available(self) # {}
    THEN {[self EXCEPT !.food = f] : f \in available(self)}
    ELSE {self}

spawn_food(self) ==
    IF available(self) # {}
    THEN {[self EXCEPT !.food = f] : f \in available(self)}
    ELSE {[self EXCEPT !.food = None]}

reset_game_keeps_pause(self) ==
    LET start_row == self.rows \div 2
        start_col == self.cols \div 2
        s1 == [self EXCEPT !.canvas = EmptyCanvas,
                           !.score = 0,
                           !.score_var = 0,
                           !.direction = "Right",
                           !.next_direction = "Right",
                           !.game_running = TRUE,
                           !.snake = << <<start_row, start_col - 1>>,
                                        <<start_row, start_col>>,
                                        <<start_row, start_col + 1>> >>]
    IN  {draw(s2) : s2 \in spawn_food(s1)}

reset_game_starts_loop(self) ==
    LET start_row == self.rows \div 2
        start_col == self.cols \div 2
        s1 == [self EXCEPT !.canvas = EmptyCanvas,
                           !.score = 0,
                           !.score_var = 0,
                           !.direction = "Right",
                           !.next_direction = "Right",
                           !.game_running = TRUE,
                           !.paused = FALSE,
                           !.root.pending = @ + 1,
                           !.snake = << <<start_row, start_col - 1>>,
                                        <<start_row, start_col>>,
                                        <<start_row, start_col + 1>> >>]
    IN  {draw(s2) : s2 \in spawn_food(s1)}

reset_game(self) ==
    LET start_row == self.rows \div 2
        start_col == self.cols \div 2
        s1 == [self EXCEPT !.canvas = EmptyCanvas,
                           !.score = 0,
                           !.score_var = 0,
                           !.direction = "Right",
                           !.next_direction = "Right",
                           !.game_running = TRUE,
                           !.paused = FALSE,
                           !.snake = << <<start_row, start_col - 1>>,
                                        <<start_row, start_col>>,
                                        <<start_row, start_col + 1>> >>]
    IN  {draw(s2) : s2 \in spawn_food(s1)}

update_direction_any(self, key) == [self EXCEPT !.next_direction = key]

update_direction_vs_next(self, key) ==
    IF key # opposites[self.next_direction]
    THEN [self EXCEPT !.next_direction = key]
    ELSE self

update_direction_at_once(self, key) ==
    IF self.direction \in DOMAIN opposites /\ key = opposites[self.direction]
    THEN self
    ELSE [self EXCEPT !.next_direction = key, !.direction = key]

\* opposites.get(self.direction) is None, and so differs from every key, when
\* self.direction is no key of opposites.
update_direction(self, key) ==
    IF self.direction \in DOMAIN opposites /\ key = opposites[self.direction]
    THEN self
    ELSE [self EXCEPT !.next_direction = key]

toggle_pause_unguarded(self) == [self EXCEPT !.paused = ~self.paused]

toggle_pause_when_over(self) ==
    IF self.game_running
    THEN self
    ELSE [self EXCEPT !.paused = ~self.paused]

toggle_pause(self) ==
    IF ~self.game_running
    THEN self
    ELSE [self EXCEPT !.paused = ~self.paused]

on_key(self, key) ==
    IF key \in {"Up", "Down", "Left", "Right"} THEN {update_direction(self, key)}
    ELSE IF key = "space" THEN {toggle_pause(self)}
    ELSE IF key \in {"r", "R"} THEN reset_game(self)
    ELSE {self}

new_head(self) ==
    LET head == self.snake[Len(self.snake)]
        d    == delta[self.direction]
    IN  <<head[1] + d[1], head[2] + d[2]>>

\* step(), line 106: the new head leaves the grid or meets the snake
collision_wall_only(self, nh) == hit_wall(self, nh)

collision_ignores_tail(self, nh) ==
    hit_wall(self, nh) \/ nh \in Range(Tail(self.snake))

collision(self, nh) == hit_wall(self, nh) \/ nh \in Range(self.snake)

\* step(), line 112
eats(self, nh) == self.food # None /\ nh = self.food

\* step(), lines 113-114
score_point_twice(self) == [self EXCEPT !.score = @ + 2, !.score_var = self.score + 2]

score_point(self) == [self EXCEPT !.score = @ + 1, !.score_var = self.score + 1]

\* step(), line 117: self.snake.pop(0)
pop_tail_twice(self) == [self EXCEPT !.snake = Tail(Tail(@))]

pop_tail_from_head(self) ==
    [self EXCEPT !.snake = SubSeq(@, 1, Len(@) - 1)]

pop_tail(self) == [self EXCEPT !.snake = Tail(@)]

\* The delta lookup of lines 98-103 raises KeyError on a direction that is no
\* key of it; the direction is committed by then and nothing else has happened.
step(self) ==
    LET s1 == [self EXCEPT !.direction = self.next_direction]
        nh == new_head(s1)
    IN  IF s1.direction \notin DOMAIN delta
        THEN {[s1 EXCEPT !.raised = "KeyError"]}
        ELSE IF collision(s1, nh)
        THEN {game_over(s1)}
        ELSE LET s2 == [s1 EXCEPT !.snake = Append(@, nh)]
             IN  IF eats(s2, nh)
                 THEN {draw(s4) : s4 \in spawn_food(score_point(s2))}
                 ELSE {draw(pop_tail(s2))}

\* root.after(speed_ms, self.loop): one more loop callback pending
after_loop(self) == [self EXCEPT !.root.pending = @ + 1]

loop_ignores_pause(self) ==
    IF self.game_running
    THEN {IF s.raised = "none" THEN after_loop(s) ELSE s : s \in step(self)}
    ELSE {after_loop(self)}

loop_ignores_running(self) ==
    IF ~self.paused
    THEN {IF s.raised = "none" THEN after_loop(s) ELSE s : s \in step(self)}
    ELSE {after_loop(self)}

\* An exception raised by step() leaves loop() before line 93 re-arms the timer.
loop(self) ==
    IF self.game_running /\ ~self.paused
    THEN {IF s.raised = "none" THEN after_loop(s) ELSE s : s \in step(self)}
    ELSE {after_loop(self)}

\* Tk runs a timer callback inside its callback wrapper, which reports an
\* exception the callback raises and carries on with the event loop.
tk_call(self) ==
    IF self.raised # "none"
    THEN [self EXCEPT !.raised = "none", !.root.reported = @ + 1]
    ELSE self

\* The attributes __init__ sets before it calls reset_game(); snake, food and
\* score do not exist yet and are filled in by reset_game().
constructed(rows, cols) ==
    [rows |-> rows, cols |-> cols,
     root |-> [pending |-> 0, reported |-> 0],
     raised |-> "none",
     canvas |-> EmptyCanvas,
     score_var |-> 0,
     direction |-> "Right", next_direction |-> "Right",
     game_running |-> TRUE, paused |-> FALSE,
     snake |-> <<>>, food |-> None, score |-> 0]

\* History bookkeeping (not program state).
digest(self) ==
    [game_running |-> self.game_running, paused |-> self.paused,
     direction |-> self.direction, next_direction |-> self.next_direction,
     score |-> self.score, length |-> Len(self.snake), food |-> self.food]

tick_count(self, n) == IF self.game_running /\ ~self.paused THEN Min(n + 1, MaxTicks) ELSE n

tick_dirs(self, ds) ==
    IF self.game_running /\ ~self.paused
    THEN (IF Len(ds) = 2 THEN Tail(ds) ELSE ds) \o <<self.next_direction>>
    ELSE ds

\* __init__: reset_game() and then a direct call of loop().
Init ==
    \E rc \in GridSizes :
        \E s \in reset_game(constructed(rc[1], rc[2])) :
            /\ game \in loop(s)
            /\ last = [op |-> "loop", key |-> "none", was |-> digest(s)]
            /\ ticks = tick_count(s, 0)
            /\ committed = tick_dirs(s, <<>>)

KeyPressed(key) ==
    /\ game' \in on_key(game, key)
    /\ last' = [op |-> "on_key", key |-> key, was |-> digest(game)]
    /\ ticks' = IF key \in {"r", "R"} THEN 0 ELSE ticks
    /\ committed' = IF key \in {"r", "R"} THEN <<>> ELSE committed

DirectionKey == \E key \in Directions : KeyPressed(key)

SpaceKey == KeyPressed("space")

ResetKey == \E key \in {"r", "R"} : KeyPressed(key)

OtherKey == \E key \in Keys \ (Directions \cup {"space", "r", "R"}) : KeyPressed(key)

\* The Tk timer fires a pending loop callback.
Loop ==
    /\ game.root.pending > 0
    /\ game' \in {tk_call(s) : s \in loop([game EXCEPT !.root.pending = @ - 1])}
    /\ last' = [op |-> "loop", key |-> "none", was |-> digest(game)]
    /\ ticks' = tick_count(game, ticks)
    /\ committed' = tick_dirs(game, committed)

Next == DirectionKey \/ SpaceKey \/ ResetKey \/ OtherKey \/ Loop

Spec == Init /\ [][Next]_vars

\* The program left alone: no key is ever pressed and the timer, which every
\* loop() re-arms, keeps firing.
SpecNoKeys == Init /\ [][Loop]_vars /\ WF_vars(Loop)

\* The same program with update_direction() also called directly, as a caller
\* of the class can, with any string as the requested direction.
Requests == Directions \cup {"Diagonal"}

DirectRequest ==
    \E key \in Requests :
        /\ game' = update_direction(game, key)
        /\ last' = [op |-> "update_direction", key |-> key, was |-> digest(game)]
        /\ UNCHANGED <<ticks, committed>>

NextDirect == Next \/ DirectRequest

SpecDirect == Init /\ [][NextDirect]_vars

----------------------------------------------------------------------------
\* Vocabulary of the properties.

Cells(self) == {<<r, c>> : r \in 0..(self.rows - 1), c \in 0..(self.cols - 1)}

\* The cell step() would compute as new_head if it ran on self now.
next_head(self) == new_head([self EXCEPT !.direction = self.next_direction])

\* This transition is a timer firing in which loop() ran step().
Ticked == last'.op = "loop" /\ game.game_running /\ ~game.paused

\* This transition is a timer firing.
TimerFired == last'.op = "loop"

\* This transition is the key handler (on_key) receiving one of these keys.
KeyIn(keys) == last'.op = "on_key" /\ last'.key \in keys

\* The last event was a timer firing in which loop() ran step().
LastTicked == last.op = "loop" /\ last.was.game_running /\ ~last.was.paused

LastKeyIn(keys) == last.op = "on_key" /\ last.key \in keys

----------------------------------------------------------------------------
\* C1: in every reachable state the cells of the snake are pairwise distinct.
C1_SnakeCellsDistinct ==
    \A i, j \in 1..Len(game.snake) : i # j => game.snake[i] # game.snake[j]

\* A tick ran into the snake's own body and ended the game.
C1_Witness ==
    /\ LastTicked
    /\ ~game.game_running
    /\ ~hit_wall(game, new_head(game))
    /\ new_head(game) \in Range(game.snake)

\* C2: the direction a tick commits is never the opposite of the direction the
\* previous tick of the same game committed.
C2_NoReversal ==
    Len(committed) = 2 => committed[2] # opposites[committed[1]]

\* Two consecutive ticks of one game committed different directions.
C2_Witness ==
    /\ LastTicked
    /\ Len(committed) = 2
    /\ committed[1] # committed[2]
    /\ game.game_running

\* C3: a tick that collides leaves game_running false; game_running then stays
\* false until reset_game(), and meanwhile no timer firing changes snake, score
\* or food.
C3_GameOverSticks ==
    [][ /\ ((Ticked /\ collision(game, next_head(game))) => ~game'.game_running)
        /\ ((~game.game_running /\ ~KeyIn({"r", "R"})) => ~game'.game_running)
        /\ ((~game.game_running /\ TimerFired) =>
               /\ game'.snake = game.snake
               /\ game'.score = game.score
               /\ game'.food = game.food) ]_vars

\* The timer fired on a finished game whose buffered direction had been changed.
C3_Witness ==
    /\ last.op = "loop"
    /\ ~last.was.game_running
    /\ ~game.game_running
    /\ game.next_direction # game.direction

\* C4: a direction key pressed while game_running is false changes no field of
\* the game, next_direction included.
C4_DirectionKeyIgnoredWhenOver ==
    [][ (~game.game_running /\ KeyIn(Directions)) => game' = game ]_vars

\* C5: a request for the opposite of direction never changes next_direction; a
\* request for the opposite of next_direction that is not the opposite of
\* direction becomes next_direction.
C5_OppositeOfCurrentRefused ==
    [][ KeyIn(Directions) =>
          /\ (last'.key = opposites[game.direction] =>
                 game'.next_direction = game.next_direction)
          /\ ((last'.key = opposites[game.next_direction]
                /\ last'.key # opposites[game.direction]) =>
                 game'.next_direction = last'.key) ]_vars

\* A request for the opposite of the buffered direction was accepted.
C5_Witness ==
    /\ LastKeyIn(Directions)
    /\ last.key = opposites[last.was.next_direction]
    /\ last.key # opposites[last.was.direction]
    /\ game.next_direction = last.key

\* C6: toggle_pause() flips paused exactly when game_running is true, and
\* changes nothing at all when game_running is false.
C6_PauseOnlyWhileRunning ==
    [][ KeyIn({"space"}) =>
          /\ ((game'.paused # game.paused) <=> game.game_running)
          /\ (~game.game_running => game' = game) ]_vars

\* Space was pressed on a finished game.
C6_Witness ==
    /\ LastKeyIn({"space"})
    /\ ~last.was.game_running

\* C7: on a tick the length of the snake never decreases, and it grows, by
\* exactly one, exactly when the new head lands on the food cell.
C7_LengthGrowsOnFood ==
    [][ Ticked =>
          /\ Len(game'.snake) >= Len(game.snake)
          /\ ((Len(game'.snake) > Len(game.snake)) <=> (next_head(game) = game.food))
          /\ ((Len(game'.snake) > Len(game.snake)) =>
                 Len(game'.snake) = Len(game.snake) + 1) ]_vars

\* A tick on which the snake ate and grew.
C7_Witness ==
    /\ LastTicked
    /\ Len(game.snake) = last.was.length + 1
    /\ game.snake[Len(game.snake)] = last.was.food

\* C8: food, when present, is not a cell of the snake, and food is absent only
\* if the snake occupies every cell of the grid.
C8_FoodOffSnake ==
    /\ (game.food # None => game.food \in Cells(game) \ Range(game.snake))
    /\ (game.food = None => Range(game.snake) = Cells(game))

\* The snake fills a 3 x 3 grid and no food is left.
C8_Witness ==
    /\ game.rows = 3
    /\ game.cols = 3
    /\ game.food = None
    /\ Len(game.snake) = 9

\* C9: score is never negative; a tick adds exactly 1 when the new head lands
\* on food and nothing otherwise; only a tick or a reset changes score.
C9_ScoreCountsFood ==
    /\ [](game.score >= 0)
    /\ [][ /\ (Ticked => game'.score =
                            game.score + (IF next_head(game) = game.food THEN 1 ELSE 0))
            /\ ((~Ticked /\ ~KeyIn({"r", "R"})) => game'.score = game.score) ]_vars

\* A tick raised an already positive score.
C9_Witness ==
    /\ LastTicked
    /\ last.was.score >= 1
    /\ game.score = last.was.score + 1

\* C10: reset_game() from any state (running, paused or over) gives the
\* canonical start: the three-cell snake in the middle row, direction and
\* next_direction Right, score 0, running, not paused, and food on a cell off
\* the snake.  The grid is one the snake leaves a free cell on (more than
\* three cells, as every grid with rows, cols >= 3 has).
C10_ResetIsCanonical ==
    [][ KeyIn({"r", "R"}) =>
          /\ game'.snake = << <<game.rows \div 2, game.cols \div 2 - 1>>,
                              <<game.rows \div 2, game.cols \div 2>>,
                              <<game.rows \div 2, game.cols \div 2 + 1>> >>
          /\ game'.direction = "Right"
          /\ game'.next_direction = "Right"
          /\ game'.score = 0
          /\ game'.game_running
          /\ ~game'.paused
          /\ (game.rows * game.cols > 3 =>
                 game'.food \in Cells(game') \ Range(game'.snake)) ]_vars

\* A paused game with a positive score was reset.
C10_Witness ==
    /\ LastKeyIn({"r", "R"})
    /\ game.rows >= 3
    /\ game.cols >= 3
    /\ last.was.paused
    /\ last.was.score >= 1
    /\ last.was.direction # "Right"
    /\ game.score = 0

\* C11: draw() runs after every tick, pause toggle and reset, so whenever
\* paused is true or game_running is false the frame on the canvas shows the
\* matching overlay.
C11_OverlayShown ==
    /\ (game.paused => "Paused" \in Range(game.canvas.overlay))
    /\ (~game.game_running => "Game Over" \in Range(game.canvas.overlay))

\* C12: a direction request that is none of Up, Down, Left, Right changes no
\* state field, and no later tick raises an exception because of it.
C12_InvalidRequestIsNoOp ==
    /\ [][ (last'.op = "update_direction" /\ last'.key \notin Directions) =>
              game' = game ]_vars
    /\ [](game.root.reported = 0 /\ game.direction \in Directions)

\* The snake covers the grid and no food is left.
GridFull(self) == self.food = None /\ Range(self.snake) = Cells(self)

\* C13 as claimed: when the snake comes to fill the grid, food becomes absent
\* and the game keeps running, and on later ticks the snake keeps moving (head
\* advances, tail removed, no growth).  Stated for the grids the specification
\* admits (rows, cols >= 3).
C13_FullGridKeepsMoving ==
    [][ /\ ((Ticked /\ Len(game'.snake) > Len(game.snake)
                    /\ Range(game'.snake) = Cells(game')) =>
               (game'.food = None /\ game'.game_running))
        /\ ((Ticked /\ GridFull(game) /\ game.rows >= 3 /\ game.cols >= 3) =>
               /\ game'.game_running
               /\ game'.snake = Tail(game.snake) \o <<next_head(game)>>
               /\ game'.food = None) ]_vars

\* C13 as amended: when the snake comes to fill the grid, food becomes absent
\* and the game is still running after that tick; the next tick that runs ends
\* the game and leaves snake, score and the absent food as they were.
C13_FullGridEndsGame ==
    [][ /\ ((Ticked /\ Len(game'.snake) > Len(game.snake)
                    /\ Range(game'.snake) = Cells(game')) =>
               (game'.food = None /\ game'.game_running))
        /\ ((Ticked /\ GridFull(game)) =>
               /\ ~game'.game_running
               /\ game'.snake = game.snake
               /\ game'.score = game.score
               /\ game'.food = None) ]_vars

\* A tick ran on a 3 x 3 grid that the snake had filled by eating.
C13_Witness ==
    /\ LastTicked
    /\ last.was.food = None
    /\ last.was.length = 9
    /\ last.was.score = 6
    /\ game.rows = 3
    /\ game.cols = 3
    /\ ~game.game_running

\* The new head a tick computes is off the grid or on a cell of the snake.
Collides(self) ==
    LET nh == next_head(self)
    IN  \/ nh[1] < 0 \/ nh[1] >= self.rows
        \/ nh[2] < 0 \/ nh[2] >= self.cols
        \/ \E i \in 1..Len(self.snake) : self.snake[i] = nh

\* C14: a tick whose new head is outside the grid or on any cell of the snake,
\* the tail cell included, sets game_running to false and leaves snake, score
\* and food unchanged.
C14_CollisionEndsGame ==
    [][ (Ticked /\ Collides(game)) =>
          /\ ~game'.game_running
          /\ game'.snake = game.snake
          /\ game'.score = game.score
          /\ game'.food = game.food ]_vars

\* A tick ended the game by moving onto the tail cell.
C14_Witness ==
    /\ LastTicked
    /\ ~game.game_running
    /\ Len(game.snake) >= 4
    /\ new_head(game) = game.snake[1]

\* The scenario of C15 on the default 20 x 20 grid: from every start state
\* reset_game() can produce, a request for Right changes nothing, and one
\* step() gives [(10,10),(10,11),(10,12)] with score 0, or, with the food at
\* (10,12), score 1 and [(10,9),(10,10),(10,11),(10,12)].
C15_Scenario ==
    \A s0 \in reset_game(constructed(DefaultRows, DefaultCols)) :
        /\ s0.snake = << <<10, 9>>, <<10, 10>>, <<10, 11>> >>
        /\ update_direction(s0, "Right") = s0
        /\ \A s1 \in step(s0) :
              IF s0.food = <<10, 12>>
              THEN /\ s1.score = 1
                   /\ s1.snake = << <<10, 9>>, <<10, 10>>, <<10, 11>>, <<10, 12>> >>
              ELSE /\ s1.score = 0
                   /\ s1.snake = << <<10, 10>>, <<10, 11>>, <<10, 12>> >>

\* C15: a tick that does not collide turns the snake into the old snake without
\* its first cell followed by the new head (score unchanged) when the new head
\* is not the food, and into the old snake followed by the new head when it is;
\* the 20 x 20 scenario comes out as stated.
C15_MoveOrGrow ==
    [][ /\ C15_Scenario
        /\ (Ticked /\ ~Collides(game)) =>
              IF next_head(game) = game.food
              THEN game'.snake = Append(game.snake, next_head(game))
              ELSE /\ game'.snake = Append(Tail(game.snake), next_head(game))
                   /\ game'.score = game.score ]_vars

\* A snake of four or more cells turned on a tick without eating.
C15_Witness ==
    /\ LastTicked
    /\ game.game_running
    /\ last.was.length >= 4
    /\ Len(game.snake) = last.was.length
    /\ game.score = last.was.score
    /\ game.direction # last.was.direction

\* C16: loop() runs step() only when game_running and not paused: a timer
\* firing on a paused (or finished) game changes nothing, and as long as the
\* game is paused no event but a reset changes snake, direction, food or
\* score, so the first tick after un-pausing starts from the state at pausing
\* (with whatever next_direction was buffered meanwhile).
C16_PausedGameStandsStill ==
    [][ /\ ((TimerFired /\ ~(game.game_running /\ ~game.paused)) => game' = game)
        /\ ((game.paused /\ ~KeyIn({"r", "R"})) =>
               /\ game'.snake = game.snake
               /\ game'.direction = game.direction
               /\ game'.food = game.food
               /\ game'.score = game.score) ]_vars

\* The timer fired on a paused game that had buffered a new direction.
C16_Witness ==
    /\ last.op = "loop"
    /\ last.was.paused
    /\ game.paused
    /\ game.next_direction # game.direction

\* C17: a direction key changes at most next_direction, and the request takes
\* effect only when the next tick that runs commits direction = next_direction
\* (so the last accepted request before the tick wins).
C17_DirectionIsBuffered ==
    [][ /\ (KeyIn(Directions) =>
               game' = [game EXCEPT !.next_direction = game'.next_direction])
        /\ (Ticked => game'.direction = game.next_direction)
        /\ (game'.direction # game.direction => (Ticked \/ KeyIn({"r", "R"}))) ]_vars

\* A tick committed a buffered direction that differs from the previous one.
C17_Witness ==
    /\ LastTicked
    /\ last.was.next_direction # last.was.direction
    /\ game.direction = last.was.next_direction
    /\ game.next_direction = game.direction

\* C18: exactly one loop() timer callback is pending at every moment; reset,
\* pause and game over neither add one nor cancel it.
C18_OneTimerPending == game.root.pending = 1

\* A finished game was reset after its timer had kept firing.
C18_Witness ==
    /\ LastKeyIn({"r", "R"})
    /\ ~last.was.game_running
    /\ last.was.score >= 1
    /\ game.root.pending = 1

\* C19: paused implies game_running.
C19_PausedImpliesRunning == game.paused => game.game_running

\* A game that has ticked at least twice is paused.
C19_Witness ==
    /\ LastKeyIn({"space"})
    /\ game.paused
    /\ ticks >= 2

\* The tick on which a game left alone runs into the right wall.
WallTick(self) == self.cols - self.cols \div 2 - 1

\* C20: with no key event and the timer firing on, the game eventually ends,
\* by hitting the right wall, on exactly tick number cols - cols // 2 - 1 of
\* the game, wherever the food spawns.
C20_EndsAtRightWall ==
    /\ <>(~game.game_running)
    /\ [](game.game_running => ticks < WallTick(game))
    /\ [](~game.game_running =>
            /\ ticks = WallTick(game)
            /\ game.direction = "Right"
            /\ game.snake[Len(game.snake)] = <<game.rows \div 2, game.cols - 1>>)

\* A game left alone ate on its way and ended at the right wall on tick 3 or later.
C20_Witness ==
    /\ LastTicked
    /\ ~game.game_running
    /\ ticks >= 3
    /\ game.score >= 1

====
